---- MODULE Spec2Model ----
(***************************************************************************)
(* AppGridPageRearrange: the PageMover coordinator (utils/pageMover.js),   *)
(* the settings store that holds the Page Layout and the AppDisplay that   *)
(* emits 'view-loaded' and runs the GLib idle callbacks; and the extension *)
(* object (extension.js) that creates and destroys the PageMover as the    *)
(* overview shows and hides.                                               *)
(*                                                                         *)
(* One action is one event-loop callback: a public operation of PageMover  *)
(* (with the whole of _executeSingleMove), one emission of 'view-loaded'   *)
(* (every connected handler), one idle callback, destroy().                *)
(***************************************************************************)
EXTENDS Integers, Sequences, FiniteSets, TLC

\* ------------------------------------------------------------------ bounds
NumPages == 3      \* page records in the initial layout of Spec
MaxConnects == 2   \* accepted moves (handler ids handed out) explored
MaxIdle == 1       \* idle sources pending at one time
MoveLen == 5       \* page records in the largest layout of MoveSpec
MaxShownIdle == 2  \* idle sources of _onOverviewShown pending at one time
MaxMovers == 3     \* PageMover objects the extension constructs

\* The grid may show a page the stored layout does not have (apps that are
\* in no page record yet are laid out after the stored pages).
MaxGrid == NumPages + 1

\* ------------------------------------------------------------- JS values
NULL == -1         \* JS null (indices are >= 0, handler ids are >= 1)
UNDEFINED == [app |-> "undefined", position |-> "undefined"]  \* JS undefined

AppIds == <<"appA", "appB", "appC", "appD", "appE", "appF", "appG">>

\* A page record as the settings store holds it: position is a GVariant.
PageRecord(i) == [app |-> AppIds[i], position |-> "variant"]
Layout(n) == [i \in 1..n |-> PageRecord(i)]

Ev(e, a) == <<e, a>>
Names(tr) == {tr[i][1] : i \in DOMAIN tr}

VARIABLES
  pages,               \* settings store: the persisted Page Layout
  currentPage,         \* appDisplay._grid.currentPage
  nPages,              \* appDisplay._grid.nPages
  uiAlive,             \* the AppDisplay actor has not been disposed
  listeners,           \* handler ids connected to 'view-loaded' on appDisplay
  nextId,              \* next handler id connect() returns
  idlePending,         \* GLib idle sources queued by the handler, not yet run
  isMoving,            \* this._isMoving
  targetPageIndex,     \* this._targetPageIndex
  rearrangedSignalId,  \* this._rearrangedSignalId
  abandonedIdle,       \* history: queued idle sources whose move destroy() tore down
  op,                  \* history: the callback that ran last
  req,                 \* history: <<from, to>> it passed to _executeSingleMove
  trace,               \* history: its effects on UI, store and log, in order
  raised,              \* history: it let an exception escape
  ext,                 \* the fields of the extension object (extension.js)
  shell                \* what the extension left in GNOME Shell: handlers
                       \* connected to button-press-event, idle sources
                       \* queued, PageMovers constructed and not destroyed

coordVars == <<isMoving, targetPageIndex, rearrangedSignalId>>
uiVars == <<currentPage, nPages, uiAlive, listeners, nextId, idlePending>>
progVars == <<pages, coordVars, uiVars>>
histVars == <<abandonedIdle, op, req, trace, raised>>
extVars == <<ext, shell>>
vars == <<progVars, histVars, extVars>>

NoReq == <<NULL, NULL>>
MoveOps == {"movePageLeft", "movePageRight", "moveToFirstPage", "moveToLastPage"}
Faults == {"none", "read", "write", "redisplay"}

\* ------------------------------------------------- Array.prototype.splice
\* The actual start of splice: a negative start counts from the end, and the
\* result is clamped to [0, length].
ActualStart(s, start) ==
  IF start < 0
    THEN (IF Len(s) + start < 0 THEN 0 ELSE Len(s) + start)
    ELSE (IF start > Len(s) THEN Len(s) ELSE start)

\* s.splice(start, 1): the removed elements and what is left of s.
SpliceRemove(s, start) ==
  LET k == ActualStart(s, start)
  IN IF k < Len(s)
       THEN [removed |-> <<s[k + 1]>>,
             rest |-> SubSeq(s, 1, k) \o SubSeq(s, k + 2, Len(s))]
       ELSE [removed |-> <<>>, rest |-> s]

\* removed[0]: undefined when nothing was removed.
FirstOf(removed) == IF Len(removed) = 0 THEN UNDEFINED ELSE removed[1]

\* s.splice(start, 0, x)
SpliceInsert(s, start, x) ==
  LET k == ActualStart(s, start)
  IN SubSeq(s, 1, k) \o <<x>> \o SubSeq(s, k + 1, Len(s))

\* A two-element exchange of the records at the two indices.
SwapMove(pagesJS, currentPageIndex, newPageIndex) ==
  IF currentPageIndex < Len(pagesJS) /\ newPageIndex < Len(pagesJS)
    THEN [pagesJS EXCEPT ![currentPageIndex + 1] = pagesJS[newPageIndex + 1],
                         ![newPageIndex + 1] = pagesJS[currentPageIndex + 1]]
    ELSE pagesJS

\* The two splices of _executeSingleMove: remove the record at
\* currentPageIndex, reinsert it at newPageIndex.
SpliceMove(pagesJS, currentPageIndex, newPageIndex) ==
  LET cut == SpliceRemove(pagesJS, currentPageIndex)
      pageToMove == FirstOf(cut.removed)
  IN SpliceInsert(cut.rest, newPageIndex, pageToMove)

\* ------------------------------------------------ settings store contract
\* PageManager.pages getter: the layout unpacked, positions as plain numbers.
PagesGetter(stored) ==
  [i \in DOMAIN stored |->
     IF stored[i] = UNDEFINED THEN UNDEFINED
     ELSE [stored[i] EXCEPT !.position = "number"]]

\* _normalizePages: wraps numeric positions; for..in over undefined is empty.
normalizePages(pagesJS) ==
  [i \in DOMAIN pagesJS |->
     IF pagesJS[i] = UNDEFINED THEN UNDEFINED
     ELSE IF pagesJS[i].position = "number"
            THEN [pagesJS[i] EXCEPT !.position = "variant"]
            ELSE pagesJS[i]]

\* PageManager.pages setter packs the array; it needs GVariant positions.
Packable(pagesJS) == \A i \in DOMAIN pagesJS : pagesJS[i].position # "number"

\* ------------------------------------------------- the extension object
\* The extension right after enable(): every field null, the menu built, the
\* overview's 'showing' and 'hiding' connected.
ExtEnabled ==
  [overviewSignals |-> TRUE,
   menu |-> TRUE,
   appDisplay |-> FALSE,
   pageIndicators |-> FALSE,
   pageMover |-> NULL,
   rightClickSignalId |-> NULL,
   rightClickAppDisplaySignalId |-> NULL]

\* GNOME Shell when the extension is first enabled: overview hidden, nothing
\* of the extension connected or queued.
ShellFresh ==
  [overviewVisible |-> FALSE,
   shownIdle |-> 0,
   indicatorHandlers |-> {},
   displayHandlers |-> {},
   nextHandler |-> 1,
   movers |-> {},
   nextMover |-> 1]

\* The extension and the shell once the idle callback of _onOverviewShown
\* has constructed the PageMover and connected both right-click handlers:
\* the state in which the PageMover is used.
ExtShown ==
  [ExtEnabled EXCEPT !.appDisplay = TRUE, !.pageIndicators = TRUE,
                     !.pageMover = 1, !.rightClickSignalId = 1,
                     !.rightClickAppDisplaySignalId = 2]

ShellShown ==
  [ShellFresh EXCEPT !.overviewVisible = TRUE, !.indicatorHandlers = {1},
                     !.displayHandlers = {2}, !.nextHandler = 3,
                     !.movers = {1}, !.nextMover = 2]

\* --------------------------------------------------------------- PageMover
Init ==
  /\ pages = Layout(NumPages)
  /\ nPages = NumPages
  /\ currentPage = 0
  /\ uiAlive = TRUE
  /\ listeners = {}
  /\ nextId = 1
  /\ idlePending = 0
  /\ isMoving = FALSE
  /\ targetPageIndex = NULL
  /\ rearrangedSignalId = NULL
  /\ abandonedIdle = 0
  /\ op = "constructor"
  /\ req = NoReq
  /\ trace = <<>>
  /\ raised = FALSE
  /\ ext = ExtShown
  /\ shell = ShellShown

\* The guard never seeing a move in progress.
NeverInProgress == FALSE

\* The guard of _executeSingleMove. this._appDisplay is set in the
\* constructor from a truthy handle and never reassigned, so only the busy
\* flag can make it true.
MoveInProgress == isMoving

\* The stage of the try block that throws: an injected fault of the getter,
\* the setter or _redisplay, or the setter refusing an unwrapped position.
ThrownAt(fail, toWrite) ==
  IF fail = "read" THEN "read"
  ELSE IF fail = "write" \/ ~Packable(toWrite) THEN "write"
  ELSE fail

\* The catch block leaving the busy flag and the pending index set.
CatchKeepsState(id) ==
  /\ listeners' = (listeners \cup {id}) \ {id}
  /\ rearrangedSignalId' = NULL
  /\ targetPageIndex' = targetPageIndex
  /\ isMoving' = TRUE

\* The catch block: disconnect the listener, clear pending index and flag.
CatchReset(id) ==
  /\ listeners' = (listeners \cup {id}) \ {id}
  /\ rearrangedSignalId' = NULL
  /\ targetPageIndex' = NULL
  /\ isMoving' = FALSE

\* _executeSingleMove connecting the listener only after the refresh request.
executeSingleMoveConnectLast(currentPageIndex, newPageIndex, fail) ==
  IF MoveInProgress
    THEN /\ trace' = <<Ev("debug_abort", NULL)>>
         /\ raised' = FALSE
         /\ UNCHANGED <<progVars, abandonedIdle>>
    ELSE
      LET id == nextId
          toWrite == normalizePages(SpliceMove(PagesGetter(pages),
                                               currentPageIndex, newPageIndex))
          thrown == ThrownAt(fail, toWrite)
          did == IF thrown = "read" THEN <<>>
                 ELSE IF thrown = "write" THEN <<Ev("read", NULL)>>
                 ELSE <<Ev("read", NULL), Ev("write", NULL)>>
      IN /\ nextId' = id + 1
         /\ pages' = IF thrown \in {"none", "redisplay"} THEN toWrite ELSE pages
         /\ IF thrown = "none"
              THEN /\ isMoving' = TRUE
                   /\ targetPageIndex' = newPageIndex
                   /\ rearrangedSignalId' = id
                   /\ listeners' = listeners \cup {id}
                   /\ trace' = <<Ev("busy", newPageIndex)>> \o did
                               \o <<Ev("redisplay", NULL), Ev("connect", id)>>
              ELSE /\ CatchReset(id)
                   /\ trace' = <<Ev("busy", newPageIndex)>> \o did
                               \o <<Ev("throw_" \o thrown, NULL)>>
         /\ raised' = FALSE
         /\ UNCHANGED <<currentPage, nPages, uiAlive, idlePending,
                        abandonedIdle>>

\* _executeSingleMove(currentPageIndex, newPageIndex); fail is the fault the
\* store or the UI injects into this call.
executeSingleMove(currentPageIndex, newPageIndex, fail) ==
  IF MoveInProgress
    THEN /\ trace' = <<Ev("debug_abort", NULL)>>
         /\ raised' = FALSE
         /\ UNCHANGED <<progVars, abandonedIdle>>
    ELSE
      LET id == nextId
          pagesJS == PagesGetter(pages)
          moved == SpliceMove(pagesJS, currentPageIndex, newPageIndex)
          toWrite == normalizePages(moved)
          thrown == ThrownAt(fail, toWrite)
          written == thrown \in {"none", "redisplay"}
          head == <<Ev("busy", newPageIndex), Ev("connect", id)>>
          did == IF thrown = "read" THEN <<>>
                 ELSE IF thrown = "write" THEN <<Ev("read", NULL)>>
                 ELSE <<Ev("read", NULL), Ev("write", NULL)>>
      IN /\ nextId' = id + 1
         /\ pages' = IF written THEN toWrite ELSE pages
         /\ IF thrown = "none"
              THEN /\ isMoving' = TRUE
                   /\ targetPageIndex' = newPageIndex
                   /\ rearrangedSignalId' = id
                   /\ listeners' = listeners \cup {id}
                   /\ trace' = head \o did \o <<Ev("redisplay", NULL)>>
              ELSE /\ CatchReset(id)
                   /\ trace' = head \o did
                               \o <<Ev("throw_" \o thrown, NULL),
                                    Ev("disconnect", id)>>
         /\ raised' = FALSE
         /\ UNCHANGED <<currentPage, nPages, uiAlive, idlePending,
                        abandonedIdle>>

\* The menu row that invokes the four operations hangs on the page
\* indicators of the AppDisplay, so they are invoked on a live UI only.
\* nextId caps the number of accepted moves explored.
UserCanInvoke == uiAlive /\ nextId <= MaxConnects

\* A public operation whose boundary check fails returns at once.
NoRequest ==
  /\ req' = NoReq
  /\ trace' = <<>>
  /\ raised' = FALSE
  /\ UNCHANGED <<progVars, abandonedIdle>>

\* A public operation passing <<from, to>> to _executeSingleMove.
Request(from, to, fail) ==
  /\ req' = <<from, to>>
  /\ executeSingleMove(from, to, fail)

\* The boundary check of movePageLeft letting page 0 through.
LeftGuardInclusive == currentPage >= 0

\* movePageLeft: if (currentPageIndex > 0)
LeftGuard == currentPage > 0

movePageLeft ==
  /\ UserCanInvoke
  /\ op' = "movePageLeft"
  /\ UNCHANGED extVars
  /\ \E fail \in Faults :
       IF LeftGuard
         THEN Request(currentPage, currentPage - 1, fail)
         ELSE NoRequest

movePageRight ==
  /\ UserCanInvoke
  /\ op' = "movePageRight"
  /\ UNCHANGED extVars
  /\ \E fail \in Faults :
       IF currentPage < nPages - 1
         THEN Request(currentPage, currentPage + 1, fail)
         ELSE NoRequest

moveToFirstPage ==
  /\ UserCanInvoke
  /\ op' = "moveToFirstPage"
  /\ UNCHANGED extVars
  /\ \E fail \in Faults :
       IF currentPage > 0
         THEN Request(currentPage, 0, fail)
         ELSE NoRequest

moveToLastPage ==
  /\ UserCanInvoke
  /\ op' = "moveToLastPage"
  /\ UNCHANGED extVars
  /\ \E fail \in Faults :
       LET lastIndex == nPages - 1
       IN IF currentPage < lastIndex
            THEN Request(currentPage, lastIndex, fail)
            ELSE NoRequest

\* ------------------------------------------------- 'view-loaded' handler
\* The state a handler works on during one emission.
HandlerState ==
  [target |-> targetPageIndex, sig |-> rearrangedSignalId,
   ls |-> listeners, idle |-> idlePending, tr |-> <<>>]

\* if (this._rearrangedSignalId && this._appDisplay) disconnect; id = null
DisconnectHeld(st) ==
  IF st.sig # NULL
    THEN [st EXCEPT !.ls = st.ls \ {st.sig}, !.sig = NULL,
                    !.tr = st.tr \o <<Ev("disconnect", st.sig)>>]
    ELSE st

\* The stale check never firing.
StateNeverCleared(st) == FALSE

\* this._targetPageIndex === null || !this._appDisplay
StateCleared(st) == st.target = NULL

\* The handler forgetting to queue the idle callback.
viewLoadedHandlerNoIdle(st) ==
  IF StateCleared(st)
    THEN DisconnectHeld([st EXCEPT !.tr = st.tr \o <<Ev("warn", NULL)>>])
    ELSE DisconnectHeld(st)

\* The arrow function connected to 'view-loaded'.
viewLoadedHandler(st) ==
  IF StateCleared(st)
    THEN DisconnectHeld([st EXCEPT !.tr = st.tr \o <<Ev("warn", NULL)>>])
    ELSE LET d == DisconnectHeld(st)
         IN [d EXCEPT !.idle = d.idle + 1,
                      !.tr = d.tr \o <<Ev("idle_add", st.target)>>]

Min(S) == CHOOSE x \in S : \A y \in S : x <= y

\* One emission: the handlers connected when it starts run in connection
\* order; a handler disconnected during the emission is not invoked.
RECURSIVE Emit(_, _)
Emit(st, todo) ==
  IF todo = {} THEN st
  ELSE LET id == Min(todo)
       IN Emit(IF id \in st.ls THEN viewLoadedHandler(st) ELSE st,
               todo \ {id})

\* The AppDisplay emits 'view-loaded' (after _redisplay, or on its own).
ViewLoaded ==
  /\ uiAlive
  /\ listeners # {}
  /\ LET out == Emit(HandlerState, listeners)
     IN /\ out.idle <= MaxIdle
        /\ listeners' = out.ls
        /\ rearrangedSignalId' = out.sig
        /\ idlePending' = out.idle
        /\ trace' = out.tr
  /\ op' = "viewLoaded"
  /\ UNCHANGED extVars
  /\ req' = NoReq
  /\ raised' = FALSE
  /\ UNCHANGED <<pages, isMoving, targetPageIndex, currentPage, nPages,
                 uiAlive, nextId, abandonedIdle>>

\* ------------------------------------------------------- idle callback
\* appDisplay.goToPage clamps the page number to the grid.
Clamp(n) == IF n > nPages - 1 THEN nPages - 1 ELSE n

\* The idle callback with the throw of goToPage escaping: no finally.
NavigateNoFinally(navThrows) ==
  /\ trace' = <<Ev("goToPage", targetPageIndex)>>
              \o (IF navThrows THEN <<Ev("throw_goToPage", NULL)>> ELSE <<>>)
  /\ currentPage' = IF navThrows THEN currentPage ELSE Clamp(targetPageIndex)
  /\ targetPageIndex' = IF navThrows THEN targetPageIndex ELSE NULL
  /\ isMoving' = IF navThrows THEN isMoving ELSE FALSE
  /\ raised' = navThrows

\* lines 108-118: try goToPage / catch log / finally clear.
Navigate(navThrows) ==
  /\ trace' = <<Ev("goToPage", targetPageIndex)>>
              \o (IF navThrows THEN <<Ev("throw_goToPage", NULL)>> ELSE <<>>)
  /\ currentPage' = IF navThrows THEN currentPage ELSE Clamp(targetPageIndex)
  /\ targetPageIndex' = NULL
  /\ isMoving' = FALSE
  /\ raised' = FALSE

\* The callback given to GLib.idle_add; it returns SOURCE_REMOVE. Sources of
\* one priority run in the order they were added.
IdleRun ==
  /\ idlePending > 0
  /\ idlePending' = idlePending - 1
  /\ abandonedIdle' = IF abandonedIdle > 0 THEN abandonedIdle - 1 ELSE 0
  /\ op' = "idle"
  /\ UNCHANGED extVars
  /\ req' = NoReq
  /\ IF targetPageIndex = NULL
       THEN /\ trace' = <<Ev("warn", NULL)>>
            /\ isMoving' = FALSE
            /\ raised' = FALSE
            /\ UNCHANGED <<targetPageIndex, currentPage>>
       ELSE \E navFails \in BOOLEAN : Navigate(navFails \/ ~uiAlive)
  /\ UNCHANGED <<pages, rearrangedSignalId, listeners, nextId, nPages,
                 uiAlive>>

\* ------------------------------------------------------------- destroy
\* destroy() without the try/catch around disconnect.
destroyUncaught(threw) ==
  IF threw
    THEN /\ trace' = <<Ev("throw_disconnect", NULL)>>
         /\ raised' = TRUE
         /\ UNCHANGED <<listeners, coordVars>>
    ELSE /\ listeners' = listeners \ {rearrangedSignalId}
         /\ trace' = IF rearrangedSignalId # NULL
                       THEN <<Ev("disconnect", rearrangedSignalId)>>
                       ELSE <<>>
         /\ raised' = FALSE
         /\ rearrangedSignalId' = NULL
         /\ isMoving' = FALSE
         /\ targetPageIndex' = NULL

\* lines 27-36; threw: the disconnect threw because the actor is gone.
destroyBody(threw) ==
  /\ listeners' = listeners \ {rearrangedSignalId}
  /\ trace' = IF rearrangedSignalId = NULL THEN <<>>
              ELSE IF threw THEN <<Ev("throw_disconnect", NULL)>>
              ELSE <<Ev("disconnect", rearrangedSignalId)>>
  /\ raised' = FALSE
  /\ rearrangedSignalId' = NULL
  /\ isMoving' = FALSE
  /\ targetPageIndex' = NULL

destroy ==
  /\ op' = "destroy"
  /\ UNCHANGED extVars
  /\ req' = NoReq
  /\ destroyBody(rearrangedSignalId # NULL /\ ~uiAlive)
  /\ abandonedIdle' = idlePending
  /\ UNCHANGED <<pages, currentPage, nPages, uiAlive, nextId, idlePending>>

\* ---------------------------------------------------------- environment
\* The grid changes its current page or its page count (scrolling, apps
\* installed or removed, a rebuild).
GridChanged ==
  /\ uiAlive
  /\ \E n \in 1..MaxGrid : \E c \in 0..(n - 1) :
       /\ <<c, n>> # <<currentPage, nPages>>
       /\ nPages' = n
       /\ currentPage' = c
  /\ op' = "grid"
  /\ UNCHANGED extVars
  /\ req' = NoReq
  /\ trace' = <<>>
  /\ raised' = FALSE
  /\ UNCHANGED <<pages, coordVars, uiAlive, listeners, nextId, idlePending,
                 abandonedIdle>>

\* The AppDisplay actor is disposed; its signal handlers go with it.
AppDisplayDisposed ==
  /\ uiAlive
  /\ uiAlive' = FALSE
  /\ listeners' = {}
  /\ op' = "disposed"
  /\ UNCHANGED extVars
  /\ req' = NoReq
  /\ trace' = <<>>
  /\ raised' = FALSE
  /\ UNCHANGED <<pages, coordVars, currentPage, nPages, nextId, idlePending,
                 abandonedIdle>>

Next ==
  \/ movePageLeft
  \/ movePageRight
  \/ moveToFirstPage
  \/ moveToLastPage
  \/ ViewLoaded
  \/ IdleRun
  \/ destroy
  \/ GridChanged
  \/ AppDisplayDisposed

Spec == Init /\ [][Next]_vars

\* The coordinator with the grid at rest: it may be on any page when the
\* overview opens, and only goToPage changes the page afterwards.
InitLive ==
  /\ pages = Layout(NumPages)
  /\ nPages = NumPages
  /\ currentPage \in 0..(NumPages - 1)
  /\ uiAlive = TRUE
  /\ listeners = {}
  /\ nextId = 1
  /\ idlePending = 0
  /\ isMoving = FALSE
  /\ targetPageIndex = NULL
  /\ rearrangedSignalId = NULL
  /\ abandonedIdle = 0
  /\ op = "constructor"
  /\ req = NoReq
  /\ trace = <<>>
  /\ raised = FALSE
  /\ ext = ExtShown
  /\ shell = ShellShown

NextLive ==
  \/ movePageLeft
  \/ movePageRight
  \/ moveToFirstPage
  \/ moveToLastPage
  \/ ViewLoaded
  \/ IdleRun
  \/ destroy
  \/ AppDisplayDisposed

\* Fairness: the UI delivers 'view-loaded' to connected handlers and the main
\* loop runs queued idle sources.
LiveSpec ==
  InitLive /\ [][NextLive]_vars /\ WF_vars(ViewLoaded) /\ WF_vars(IdleRun)

\* ------------------------------------------- _executeSingleMove on its own
\* Every layout of 2..MoveLen records, every pair of distinct indices.
Range(s) == {s[i] : i \in DOMAIN s}
Orderings(n) ==
  {s \in [1..n -> Range(Layout(n))] : \A r \in Range(Layout(n)) : r \in Range(s)}

InitMove ==
  /\ \E n \in 2..MoveLen :
       /\ pages \in Orderings(n)
       /\ nPages = n
  /\ currentPage = 0
  /\ uiAlive = TRUE
  /\ listeners = {}
  /\ nextId = 1
  /\ idlePending = 0
  /\ isMoving = FALSE
  /\ targetPageIndex = NULL
  /\ rearrangedSignalId = NULL
  /\ abandonedIdle = 0
  /\ op = "constructor"
  /\ req = NoReq
  /\ trace = <<>>
  /\ raised = FALSE
  /\ ext = ExtShown
  /\ shell = ShellShown

\* One call of _executeSingleMove on the freshly constructed coordinator.
DirectMove ==
  /\ op = "constructor"
  /\ op' = "executeSingleMove"
  /\ UNCHANGED extVars
  /\ \E from \in 0..(Len(pages) - 1) : \E to \in 0..(Len(pages) - 1) :
       /\ from # to
       /\ \E fail \in Faults : Request(from, to, fail)

NextMove ==
  \/ DirectMove
  \/ ViewLoaded
  \/ IdleRun

MoveSpec == InitMove /\ [][NextMove]_vars

\* ---------------------------------------------- extension.js: lifecycle
\* The PageMover is not used in these steps: its own state stays as the
\* constructor left it.
ExtFrame == UNCHANGED <<progVars, abandonedIdle, req>>

InitExt ==
  /\ pages = Layout(NumPages)
  /\ nPages = NumPages
  /\ currentPage = 0
  /\ uiAlive = TRUE
  /\ listeners = {}
  /\ nextId = 1
  /\ idlePending = 0
  /\ isMoving = FALSE
  /\ targetPageIndex = NULL
  /\ rearrangedSignalId = NULL
  /\ abandonedIdle = 0
  /\ op = "enable"
  /\ req = NoReq
  /\ trace = <<>>
  /\ raised = FALSE
  /\ ext = ExtEnabled
  /\ shell = ShellFresh

\* enable(): resets the five fields to null, builds the menu, connects the
\* overview's 'showing' and 'hiding'. The shell calls it on a disabled
\* extension only.
enable ==
  /\ ~ext.overviewSignals
  /\ op' = "enable"
  /\ ext' = ExtEnabled
  /\ shell' = shell
  /\ trace' = <<>>
  /\ raised' = FALSE
  /\ ExtFrame

\* _onOverviewShown: nothing when the AppDisplay is already held, else one
\* idle source is queued; its id is not kept.
onOverviewShown(sh) ==
  IF ext.appDisplay
    THEN [sh |-> sh, tr |-> <<>>]
    ELSE [sh |-> [sh EXCEPT !.shownIdle = @ + 1],
          tr |-> <<Ev("idle_add", NULL)>>]

\* The overview emits 'showing'; the extension's handler runs when connected.
OverviewShowing ==
  /\ ~shell.overviewVisible
  /\ op' = "showing"
  /\ LET vis == [shell EXCEPT !.overviewVisible = TRUE]
         out == IF ext.overviewSignals
                  THEN onOverviewShown(vis)
                  ELSE [sh |-> vis, tr |-> <<>>]
     IN /\ out.sh.shownIdle <= MaxShownIdle
        /\ shell' = out.sh
        /\ trace' = out.tr
  /\ ext' = ext
  /\ raised' = FALSE
  /\ ExtFrame

\* _initializeAppDisplayListeners on extension fields e (the page indicators
\* are an actor of their own, as in the shell's AppDisplay): the assignment to
\* this._menu.sourceActor throws when the menu is null, after
\* _pageIndicators was set and before anything is connected.
initializeAppDisplayListeners(e, sh) ==
  LET h == sh.nextHandler
      e1 == [e EXCEPT !.pageIndicators = TRUE]
  IN IF ~e.menu
       THEN [e |-> e1, sh |-> sh, threw |-> TRUE,
             tr |-> <<Ev("throw_menu", NULL)>>]
       ELSE [e |-> [e1 EXCEPT !.rightClickSignalId = h,
                              !.rightClickAppDisplaySignalId = h + 1],
             sh |-> [sh EXCEPT !.indicatorHandlers = @ \cup {h},
                               !.displayHandlers = @ \cup {h + 1},
                               !.nextHandler = h + 2],
             threw |-> FALSE,
             tr |-> <<Ev("connect", h), Ev("connect", h + 1)>>]

\* The idle callback of _onOverviewShown: when the AppDisplay is found it is
\* stored, a PageMover is constructed and the listeners are initialised,
\* whatever the extension's state is by now.
shownIdleCallback(found) ==
  IF found
    THEN LET m == shell.nextMover
         IN initializeAppDisplayListeners(
              [ext EXCEPT !.appDisplay = TRUE, !.pageMover = m],
              [shell EXCEPT !.movers = @ \cup {m}, !.nextMover = m + 1])
    ELSE [e |-> ext, sh |-> shell, threw |-> FALSE, tr |-> <<>>]

\* One queued idle source of _onOverviewShown runs and is removed.
ShownIdleRun ==
  /\ shell.shownIdle > 0
  /\ op' = "shownIdle"
  /\ \E found \in BOOLEAN :
       LET out == shownIdleCallback(found)
       IN /\ out.sh.nextMover <= MaxMovers + 1
          /\ ext' = out.e
          /\ shell' = [out.sh EXCEPT !.shownIdle = @ - 1]
          /\ trace' = out.tr
          /\ raised' = out.threw
  /\ ExtFrame

\* _onOverviewHidden on extension fields e: nothing when no AppDisplay is
\* held; else the two handlers whose ids are held are disconnected, the held
\* PageMover is destroyed and the five fields are set to null.
onOverviewHidden(e, sh) ==
  IF ~e.appDisplay
    THEN [e |-> e, sh |-> sh, tr |-> <<>>]
    ELSE
      LET ind == IF e.rightClickSignalId # NULL /\ e.pageIndicators
                   THEN {e.rightClickSignalId} ELSE {}
          dis == IF e.rightClickAppDisplaySignalId # NULL /\ e.appDisplay
                   THEN {e.rightClickAppDisplaySignalId} ELSE {}
      IN [e |-> [e EXCEPT !.pageMover = NULL,
                          !.pageIndicators = FALSE,
                          !.appDisplay = FALSE,
                          !.rightClickSignalId = NULL,
                          !.rightClickAppDisplaySignalId = NULL],
          sh |-> [sh EXCEPT !.indicatorHandlers = @ \ ind,
                            !.displayHandlers = @ \ dis,
                            !.movers = @ \ {e.pageMover}],
          tr |-> <<Ev("disconnect", e.rightClickSignalId),
                   Ev("disconnect", e.rightClickAppDisplaySignalId),
                   Ev("destroy", e.pageMover)>>]

\* The overview emits 'hiding'; the extension's handler runs when connected.
OverviewHiding ==
  /\ shell.overviewVisible
  /\ op' = "hiding"
  /\ LET vis == [shell EXCEPT !.overviewVisible = FALSE]
         out == IF ext.overviewSignals
                  THEN onOverviewHidden(ext, vis)
                  ELSE [e |-> ext, sh |-> vis, tr |-> <<>>]
     IN /\ ext' = out.e
        /\ shell' = out.sh
        /\ trace' = out.tr
  /\ raised' = FALSE
  /\ ExtFrame

\* disable(): disconnects 'showing' and 'hiding', runs _onOverviewHidden,
\* destroys the menu. The shell calls it on an enabled extension only.
disable ==
  /\ ext.overviewSignals
  /\ op' = "disable"
  /\ LET out == onOverviewHidden(ext, shell)
     IN /\ ext' = [out.e EXCEPT !.overviewSignals = FALSE, !.menu = FALSE]
        /\ shell' = out.sh
        /\ trace' = out.tr
  /\ raised' = FALSE
  /\ ExtFrame

NextExt ==
  \/ enable
  \/ OverviewShowing
  \/ ShownIdleRun
  \/ OverviewHiding
  \/ disable

ExtSpec == InitExt /\ [][NextExt]_vars

\* ================================================================= claims
IsRequest(o) == o \in MoveOps \cup {"executeSingleMove"}
Threw(tr) == Names(tr) \cap {"throw_read", "throw_write", "throw_redisplay"} # {}

\* C1: a move request issued while the busy flag is true changes nothing:
\* the layout is not written, no listener is connected, the pending index and
\* every other field of coordinator, store and UI stay as they were (so
\* nothing is left behind that could apply the request later).
C1_BusyRequestDropped ==
  [][(isMoving /\ IsRequest(op') /\ req' # NoReq)
       => /\ UNCHANGED progVars
          /\ trace' = <<Ev("debug_abort", NULL)>>
          /\ ~raised']_vars

C1_Witness ==
  /\ op \in MoveOps
  /\ req # NoReq
  /\ isMoving
  /\ trace = <<Ev("debug_abort", NULL)>>

\* s without the element at 0-based index i.
Without(s, i) ==
  [k \in 1..(Len(s) - 1) |-> IF k <= i THEN s[k] ELSE s[k + 1]]

\* new holds old's record from index from at index to, and the other records
\* in their old relative order.
IsReinsert(old, new, from, to) ==
  /\ Len(new) = Len(old)
  /\ new[to + 1] = old[from + 1]
  /\ Without(new, to) = Without(old, from)

\* C2: an accepted move(from, to) with from # to, both inside the layout,
\* whose write succeeds stores the layout with the record of index from at
\* index to and all other records in their original relative order; moving
\* index 4 to index 1 in [A,B,C,D,E] stores [A,E,B,C,D].
C2_RemoveAndReinsert ==
  [][(op' = "executeSingleMove" /\ "write" \in Names(trace'))
       => /\ IsReinsert(pages, pages', req'[1], req'[2])
          /\ (pages = Layout(5) /\ req' = <<4, 1>>
                => pages' = <<PageRecord(1), PageRecord(5), PageRecord(2),
                              PageRecord(3), PageRecord(4)>>)]_vars

C2_Witness ==
  /\ op = "executeSingleMove"
  /\ req = <<4, 1>>
  /\ "write" \in Names(trace)
  /\ pages = <<PageRecord(1), PageRecord(5), PageRecord(2),
               PageRecord(3), PageRecord(4)>>

\* C3: the persisted layout is always a permutation of the initial layout:
\* same length, every original record exactly once, no undefined entry.
C3_LayoutIsPermutation ==
  /\ Len(pages) = NumPages
  /\ \A r \in Range(Layout(NumPages)) :
       Cardinality({i \in DOMAIN pages : pages[i] = r}) = 1
  /\ \A i \in DOMAIN pages : pages[i] # UNDEFINED

\* C5: when the read, the write or the refresh request of an accepted move
\* throws, the call returns with the busy flag false, the pending index
\* cleared, the listener of this move disconnected and no exception escaping;
\* it has queued no idle callback and navigated nowhere.
C5_FailureCleanup ==
  [][(IsRequest(op') /\ req' # NoReq /\ Threw(trace'))
       => /\ ~isMoving'
          /\ targetPageIndex' = NULL
          /\ rearrangedSignalId' = NULL
          /\ nextId \notin listeners'
          /\ listeners' = listeners
          /\ ~raised'
          /\ idlePending' = idlePending
          /\ "goToPage" \notin Names(trace')]_vars

C5_Witness ==
  /\ op \in MoveOps
  /\ "throw_write" \in Names(trace)
  /\ ~isMoving
  /\ targetPageIndex = NULL
  /\ rearrangedSignalId = NULL

\* C6: a 'view-loaded' emission that finds the pending index cleared calls no
\* navigation, queues no idle callback, raises nothing and leaves the layout
\* and the current page alone.
C6_StaleSignalSafe ==
  [][(targetPageIndex = NULL /\ op' = "viewLoaded")
       => /\ idlePending' = idlePending
          /\ Names(trace') \cap {"goToPage", "idle_add"} = {}
          /\ ~raised'
          /\ pages' = pages
          /\ currentPage' = currentPage]_vars

C6_Witness ==
  /\ op = "viewLoaded"
  /\ "warn" \in Names(trace)
  /\ targetPageIndex = NULL

AtBoundary(o) ==
  \/ o \in {"movePageLeft", "moveToFirstPage"} /\ currentPage = 0
  \/ o \in {"movePageRight", "moveToLastPage"} /\ currentPage = nPages - 1

\* C7: movePageLeft and moveToFirstPage on page 0, movePageRight and
\* moveToLastPage on the last page leave layout, busy flag, pending index and
\* listener registration unchanged and request no refresh.
C7_BoundaryNoOp ==
  [][AtBoundary(op')
       => /\ UNCHANGED progVars
          /\ req' = NoReq
          /\ trace' = <<>>
          /\ ~raised']_vars

C7_Witness ==
  /\ op = "moveToLastPage"
  /\ req = NoReq
  /\ currentPage = nPages - 1
  /\ trace = <<>>

\* C8: destroy never raises, also when the disconnect fails on a disposed
\* actor, and leaves busy flag false, pending index cleared and no listener
\* id held; a destroy right after a destroy changes nothing.
C8_DestroyIdempotent ==
  [][op' = "destroy"
       => /\ ~raised'
          /\ ~isMoving'
          /\ targetPageIndex' = NULL
          /\ rearrangedSignalId' = NULL
          /\ (op = "destroy" => UNCHANGED progVars)]_vars

C8_Witness ==
  /\ op = "destroy"
  /\ "throw_disconnect" \in Names(trace)
  /\ ~isMoving
  /\ rearrangedSignalId = NULL

\* C10: when goToPage throws in the idle callback nothing escapes, busy flag
\* and pending index are cleared, and the next move request is accepted.
C10_NavigationFailureReleases ==
  [][/\ (op' = "idle" /\ "throw_goToPage" \in Names(trace')
           => ~raised' /\ ~isMoving' /\ targetPageIndex' = NULL)
     /\ (op = "idle" /\ "throw_goToPage" \in Names(trace)
         /\ op' \in MoveOps /\ req' # NoReq
           => "connect" \in Names(trace'))]_vars

C10_Witness ==
  /\ op = "idle"
  /\ "throw_goToPage" \in Names(trace)
  /\ ~isMoving
  /\ targetPageIndex = NULL

\* The state right after a request was accepted, written and refreshed.
Accepted(t) ==
  /\ op \in MoveOps
  /\ "redisplay" \in Names(trace)
  /\ isMoving
  /\ targetPageIndex = t

\* ... by a coordinator with no listener and no idle callback left over.
AcceptedClean(t) ==
  /\ Accepted(t)
  /\ listeners = {rearrangedSignalId}
  /\ idlePending = 0

\* The idle callback has called goToPage(t) and the coordinator is idle.
NavigatedAndIdle(t) ==
  /\ op = "idle"
  /\ trace[1] = Ev("goToPage", t)
  /\ ~isMoving
  /\ targetPageIndex = NULL
  /\ rearrangedSignalId = NULL
  /\ listeners = {}

\* moveToFirstPage on page 2 of [appA, appB, appC]: the layout becomes
\* [appC, appA, appB], one refresh is requested, index 0 is pending.
FirstPageScenario ==
  [][(pages = Layout(3) /\ currentPage = 2 /\ ~isMoving
      /\ op' = "moveToFirstPage" /\ "redisplay" \in Names(trace'))
       => /\ pages' = <<PageRecord(3), PageRecord(1), PageRecord(2)>>
          /\ Cardinality({i \in DOMAIN trace' : trace'[i][1] = "redisplay"}) = 1
          /\ targetPageIndex' = 0
          /\ isMoving']_vars

C9_DestroyAbandonsMove ==
  [][/\ (op' = "destroy"
           => /\ ~isMoving'
              /\ targetPageIndex' = NULL
              /\ rearrangedSignalId' = NULL
              /\ listeners' = {})
     /\ (op' = "idle" /\ abandonedIdle > 0
           => /\ "goToPage" \notin Names(trace')
              /\ ~isMoving'
              /\ targetPageIndex' = NULL
              /\ listeners' = {})]_vars

\* new is old with the records at 0-based indices i and j exchanged, both
\* indices inside the layout, every other index holding its old record.
IsExchange(old, new, i, j) ==
  /\ i \in 0..(Len(old) - 1)
  /\ j \in 0..(Len(old) - 1)
  /\ Len(new) = Len(old)
  /\ new[i + 1] = old[j + 1]
  /\ new[j + 1] = old[i + 1]
  /\ \A k \in DOMAIN old : k \notin {i + 1, j + 1} => new[k] = old[k]

\* C11: an accepted movePageLeft on current page i > 0 whose write succeeds
\* stores the layout with exactly the records of indices i and i-1 exchanged,
\* an accepted movePageRight on page i < last the layout with exactly the
\* records of i and i+1 exchanged.
C11_AdjacentExchange ==
  [][/\ (op' = "movePageLeft" /\ "write" \in Names(trace')
           => IsExchange(pages, pages', currentPage, currentPage - 1))
     /\ (op' = "movePageRight" /\ "write" \in Names(trace')
           => IsExchange(pages, pages', currentPage, currentPage + 1))]_vars

\* C12: every request a public operation passes to _executeSingleMove has
\* source and destination inside [0, nPages - 1] of the grid and source #
\* destination; the source is the grid's current page, the destination is
\* c-1 for movePageLeft, c+1 for movePageRight, 0 for moveToFirstPage and
\* nPages-1 for moveToLastPage.
C12_RequestsInRange ==
  [][(op' \in MoveOps /\ req' # NoReq)
       => /\ currentPage \in 0..(nPages - 1)
          /\ req'[1] \in 0..(nPages - 1)
          /\ req'[2] \in 0..(nPages - 1)
          /\ req'[1] # req'[2]
          /\ req'[1] = currentPage
          /\ (op' = "movePageLeft" => req'[2] = currentPage - 1)
          /\ (op' = "movePageRight" => req'[2] = currentPage + 1)
          /\ (op' = "moveToFirstPage" => req'[2] = 0)
          /\ (op' = "moveToLastPage" => req'[2] = nPages - 1)]_vars

C12_Witness ==
  /\ op = "moveToLastPage"
  /\ nPages = MaxGrid
  /\ req = <<1, MaxGrid - 1>>
  /\ "busy" \in Names(trace)

\* The positions of the refresh requests in a trace; a refresh request that
\* threw is recorded as throw_redisplay.
Refreshes(tr) ==
  {i \in DOMAIN tr : tr[i][1] \in {"redisplay", "throw_redisplay"}}

\* C13: an accepted move first marks the coordinator busy, then connects the
\* 'view-loaded' listener, then writes the layout, then requests the refresh:
\* the listener is connected when the refresh is requested, one refresh is
\* requested right after a write that succeeded and none when the read or
\* the write failed.
C13_StepOrder ==
  [][(IsRequest(op') /\ "busy" \in Names(trace'))
       => /\ trace'[1] = Ev("busy", req'[2])
          /\ trace'[2] = Ev("connect", nextId)
          /\ \A i \in DOMAIN trace' :
               trace'[i][1] = "write" => i > 2 /\ Refreshes(trace') = {i + 1}
          /\ ("write" \notin Names(trace') => Refreshes(trace') = {})
          /\ ("redisplay" \in Names(trace')
                => nextId \in listeners' /\ isMoving')]_vars

C13_Witness ==
  /\ op \in MoveOps
  /\ trace = <<Ev("busy", req[2]), Ev("connect", rearrangedSignalId),
               Ev("read", NULL), Ev("write", NULL), Ev("redisplay", NULL)>>
  /\ rearrangedSignalId \in listeners

\* C14: every goToPage call of the coordinator targets the pending index of
\* the accepted move and comes after the 'view-loaded' notification of that
\* same move (whose handler gave up the listener id before queueing the idle
\* callback); it is never made by an idle callback left over from a move
\* that destroy tore down.
C14_NavigationAfterNotification ==
  [][(op' = "idle" /\ "goToPage" \in Names(trace'))
       => /\ isMoving
          /\ trace'[1] = Ev("goToPage", targetPageIndex)
          /\ rearrangedSignalId = NULL
          /\ abandonedIdle = 0]_vars

\* C15: at most one 'view-loaded' listener of the coordinator is connected,
\* a listener is connected only while the busy flag is true, and every
\* connected listener is the one whose id the coordinator holds.
C15_SingleHeldListener ==
  /\ Cardinality(listeners) <= 1
  /\ (listeners # {} => isMoving)
  /\ listeners \subseteq {rearrangedSignalId}

\* C16: while a move is accepted and its 'view-loaded' notification has not
\* been delivered (the coordinator still holds the listener id), any step
\* other than that delivery and destroy leaves the coordinator busy, and a
\* move request made meanwhile writes no layout.
C16_BusyUntilNotified ==
  [][(isMoving /\ rearrangedSignalId # NULL
      /\ op' \notin {"viewLoaded", "destroy"})
       => /\ isMoving'
          /\ pages' = pages
          /\ (IsRequest(op') /\ req' # NoReq
                => trace' = <<Ev("debug_abort", NULL)>>)]_vars

\* C17 as stated: the busy flag goes from true to false only in the idle
\* callback (completion); a failing mutation never raises it past the call.
C17_BusyLeftByCompletionOnly ==
  [][(isMoving /\ ~isMoving') => op' = "idle"]_vars

\* C17 amended: the busy flag goes from true to false only in the idle
\* callback or in destroy; the four move operations never clear it, and a
\* call whose mutation fails returns with the flag as false as it found it.
C17_BusyLeftByCompletionOrDestroy ==
  [][/\ (isMoving /\ ~isMoving' => op' \in {"idle", "destroy"})
     /\ (IsRequest(op') /\ Threw(trace') => ~isMoving /\ ~isMoving')]_vars

C17_Witness ==
  /\ op = "destroy"
  /\ "disconnect" \in Names(trace)
  /\ ~isMoving
  /\ targetPageIndex = NULL
  /\ listeners = {}

\* C18: the busy flag is true exactly when a pending index is recorded.
C18_BusyIffPending ==
  isMoving <=> targetPageIndex # NULL

\* An idle callback that found the pending index cleared.
C18_Witness ==
  /\ op = "idle"
  /\ "warn" \in Names(trace)
  /\ ~isMoving
  /\ targetPageIndex = NULL

\* C19: while the extension is disabled it holds no PageMover and no
\* AppDisplay, and none of its right-click handlers is connected.
C19_DisabledHoldsNothing ==
  ~ext.overviewSignals
    => /\ ext.pageMover = NULL
       /\ ~ext.appDisplay
       /\ shell.indicatorHandlers = {}
       /\ shell.displayHandlers = {}

\* C20: at most one PageMover that was constructed and not destroyed, at
\* most one right-click handler connected on the page indicators and one on
\* the AppDisplay, each of them the handler whose id the extension holds (so
\* that the next _onOverviewHidden disconnects it).
C20_SingleMoverAndHandlers ==
  /\ Cardinality(shell.movers) <= 1
  /\ Cardinality(shell.indicatorHandlers) <= 1
  /\ Cardinality(shell.displayHandlers) <= 1
  /\ shell.indicatorHandlers \subseteq {ext.rightClickSignalId}
  /\ shell.displayHandlers \subseteq {ext.rightClickAppDisplaySignalId}

====
